---- MODULE Spec2Model ----
(***************************************************************************)
(* State-machine model of the s2-coverings pipeline:                       *)
(*   - feature mode : Integrator.write_all_relations driving               *)
(*                    GeometricFeature.yield_s2_relations                  *)
(*   - cell mode    : S2LevelGenerator (generate_cells_at_level,           *)
(*                    generate_and_write, S2RDFGenerator)                  *)
(*   - filling      : GeometricFeature.filling (saturation loop)           *)
(* S2 cell ids keep the library's bit layout (face, 2 bits per level, a    *)
(* trailing 1), with kMaxLevel levels below a face instead of 30.          *)
(***************************************************************************)
EXTENDS Integers, Sequences, FiniteSets, TLC

(***************************************************************************)
(* Bounds of the model                                                     *)
(***************************************************************************)
\* deepest S2 level of the scaled cell id (30 in the library)
kMaxLevel == 2
\* longest feature stream handed to write_all_relations
MaxFeatures == 2
\* longest stream of records GeometryParser.parse returns
MaxRecords == 3
\* largest distance between adjacent vertices, and largest tolerance, tried
MaxGap == 3
\* largest flush threshold tried (0 is tried too)
MaxFlush == 3
\* largest batch_size tried in cell mode (0 is tried too)
MaxBatch == 7
\* worker processes of the multiprocessing Pool
PoolSize == 2

(***************************************************************************)
(* Arithmetic helpers                                                      *)
(***************************************************************************)
RECURSIVE Pow(_, _)
Pow(b, e) == IF e = 0 THEN 1 ELSE b * Pow(b, e - 1)

Max(a, b) == IF a >= b THEN a ELSE b

\* a set of integers as the increasing sequence of its members
RECURSIVE SortedSeq(_)
SortedSeq(S) ==
    IF S = {} THEN << >>
    ELSE LET m == CHOOSE x \in S : \A y \in S : x <= y
         IN  << m >> \o SortedSeq(S \ {m})

(***************************************************************************)
(* S2CellId (s2geometry), as the sources use it                            *)
(***************************************************************************)
NumFaces == 6

kPosBits == 2 * kMaxLevel + 1

lsb_for_level(l) == Pow(4, kMaxLevel - l)

RECURSIVE lsb(_)
lsb(id) == IF id % 2 = 1 THEN 1 ELSE 2 * lsb(id \div 2)

level(id) == CHOOSE l \in 0..kMaxLevel : lsb_for_level(l) = lsb(id)

parent(id) ==
    LET new_lsb == 4 * lsb(id)
    IN  (id \div (2 * new_lsb)) * (2 * new_lsb) + new_lsb

FromFace(f) == f * Pow(2, kPosBits) + lsb_for_level(0)

child_begin(id, l) == id - lsb(id) + lsb_for_level(l)

child_end(id, l) == id + lsb(id) + lsb_for_level(l)

Begin(l) == child_begin(FromFace(0), l)

End(l) == child_end(FromFace(NumFaces - 1), l)

next(id) == id + 2 * lsb(id)

\* S2CellId(s2_point): the leaf cell of a point (points sit in the first leaf)
LeafCell == Begin(kMaxLevel)

(***************************************************************************)
(* IRIs and triples                                                        *)
(***************************************************************************)
\* an IRI that keeps the level of the cell and forgets its id
generate_cell_iri_levelOnly(cell_id) ==
    [ns |-> "kwgr", name |-> "s2.level", level |-> level(cell_id), id |-> 0]

\* KWGOnt.KWGR["s2.level{level}.{id}"]
generate_cell_iri(cell_id) ==
    [ns |-> "kwgr", name |-> "s2.level", level |-> level(cell_id), id |-> cell_id]

\* str(n) for a non-negative int: its decimal digits
RECURSIVE str(_)
str(n) ==
    LET digit == << "0", "1", "2", "3", "4", "5", "6", "7", "8", "9" >>
    IN  IF n < 10 THEN << digit[n + 1] >>
        ELSE str(n \div 10) \o << digit[(n % 10) + 1] >>

\* KWGOnt.KWGR, the namespace of the resources
KWGR == "http://stko-kwg.geog.ucsb.edu/lod/resource/"

\* the text of a cell IRI: KWGOnt.KWGR[f"{'s2.level'}{level}.{id_str}"]
IriText(iri) ==
    << KWGR, iri.name >> \o str(iri.level) \o << "." >> \o str(iri.id)

\* the IRI of the i-th input feature
FeatureIri(i) == [ns |-> "feature", name |-> "feature", level |-> 0, id |-> i]

Triple(s, p, o) == [s |-> s, p |-> p, o |-> o]

SymmetricPredicates == {"sfOverlaps", "sfTouches", "sfCrosses"}

(***************************************************************************)
(* S2RegionCoverer and ConstrainedS2RegionCoverer                          *)
(***************************************************************************)
\* S2RegionCoverer(): the library defaults
S2RegionCoverer == [min_level |-> 0, max_level |-> kMaxLevel, max_cells |-> 8]

set_min_level(cov, l) == [cov EXCEPT !.min_level = l]

set_max_level(cov, l) == [cov EXCEPT !.max_level = l]

set_max_cells(cov, n) == [cov EXCEPT !.max_cells = n]

\* Python truth value of an int
Truthy(x) == x # 0

ConstrainedS2RegionCoverer(min, max) ==
    LET c0 == S2RegionCoverer
        c1 == IF Truthy(max) /\ max >= 0 THEN set_max_level(c0, max) ELSE c0
        c2 == IF Truthy(min) /\ min >= 0 THEN set_min_level(c1, min) ELSE c1
    IN  c2

\* the ancestor of a cell at level l (the cell itself when it is no deeper)
RECURSIVE Ancestor(_, _)
Ancestor(id, l) == IF level(id) <= l THEN id ELSE Ancestor(parent(id), l)

\* coverer.GetCovering(s2_obj).  The library picks the cells; every cell it
\* returns has a level between the coverer's min_level and max_level.  The
\* covering is abstracted to one cell around the feature's location, at
\* either end of that range.
GetCovering(cov) ==
    {{Ancestor(LeafCell, l)} : l \in {cov.min_level, cov.max_level}}

\* coverer.GetInteriorCovering(s2_obj): may be empty
GetInteriorCovering(cov) == {{}} \cup GetCovering(cov)

(***************************************************************************)
(* State                                                                   *)
(***************************************************************************)
VARIABLES
    mode,             \* which entry point runs: "feature", "cell" or "filling"
    pc,               \* position of the run
    compressed,       \* Integrator: compressed
    min_level,        \* Integrator: min_level
    max_level,        \* Integrator: max_level
    flush_threshold,  \* Integrator: flush_threshold
    rdf_format,       \* configured serialization format
    geo_features,     \* the feature stream handed to write_all_relations
    idx,              \* features taken from the stream so far
    coverer,          \* write_all_relations: the coverer handed to yield_s2_relations
    boundary_coverer, \* the coverer yield_overlapping_ids builds itself
    gen,              \* triples the running yield_s2_relations generator still yields
    graph,            \* write_all_relations: graph (the triple buffer)
    triple_count,     \* write_all_relations: triple_count
    file_counter,     \* write_all_relations: file_counter
    dirs,             \* directories made by S2Writer.create_output_path
    files,            \* path -> graph serialized there by S2Writer.write
    writeLog,         \* path -> number of S2Writer.write calls made with it
    emitted,          \* every triple yield_s2_relations has yielded so far
    level_cfg,        \* S2LevelGenerator: level
    batch_size,       \* S2LevelGenerator: batch_size
    target_parent_level, \* S2LevelGenerator: target_parent_level, << >> for None
    current_id,       \* generate_cells_at_level: current_id
    id_batch,         \* generate_cells_at_level: id_batch
    batches,          \* the batches generate_cells_at_level has yielded, in order
    tasks,            \* yielded batches not written yet, oldest first
    exponent,         \* filling: the loop variable
    filling,          \* filling: the covering held in the variable filling
    coverings,        \* the coverings GetInteriorCovering returned, in call order
    s2_cell_id,       \* S2RDFGenerator: s2_cell_id
    rdf_graph,        \* S2RDFGenerator: graph
    geometry,         \* GeometricFeature: geometry (its kind)
    fill_cells,       \* the cells filling returned to yield_s2_relations
    overlap_cells,    \* the cells yield_overlapping_ids yielded
    crossing_cells,   \* the cells yield_crossing_ids yielded
    s2_obj,           \* what s2_from_coords did with the geometry
    oriented,         \* what orient did with the geometry
    raised,           \* the exception that ended the call, "" for none
    solutions,        \* the records GeometryParser.parse returns, in order
    sol_idx,          \* records taken from the parser so far
    features,         \* the GeometricFeature objects __iter__ has yielded
    result_set,       \* batch_result_sets: result_set
    batch_results,    \* the batches batch_result_sets has yielded, in order
    get_ids_calls,    \* the batches of geometries get_ids was called with
    tolerance,        \* GeometricFeature: tolerance
    route,            \* which method of GeometricFeature converts the geometry
    sign,             \* orient: sign
    shape,            \* the rings of the geometry on its way to S2
    result            \* the rings the call handed to S2, or returned

featureVars ==
    << compressed, min_level, max_level, flush_threshold, geo_features, idx,
       coverer, boundary_coverer, gen, graph, triple_count, file_counter >>

cellVars ==
    << level_cfg, batch_size, target_parent_level, current_id, id_batch,
       batches, tasks >>

fillingVars == << exponent, filling, coverings >>

describeVars == << s2_cell_id, rdf_graph >>

relateVars ==
    << geometry, fill_cells, overlap_cells, crossing_cells, s2_obj, oriented,
       raised >>

iterVars == << solutions, sol_idx, features >>

overlapVars == << result_set, batch_results, get_ids_calls >>

convertVars == << tolerance, route, sign, shape, result >>

vars ==
    << mode, pc, rdf_format, dirs, files, writeLog, emitted, featureVars,
       cellVars, fillingVars, describeVars, relateVars, iterVars,
       overlapVars, convertVars >>

(***************************************************************************)
(* kwg_ont.file_extensions and S2Writer                                    *)
(***************************************************************************)
Formats == {"ttl"}

file_extensions(fmt) ==
    CASE fmt \in {"ttl", "turtle"} -> ".ttl"
      [] fmt = "xml" -> ".xml"
      [] fmt \in {"nq", "nquads"} -> ".nq"
      [] fmt = "n3" -> "n3"
      [] fmt = "nt" -> ".nt"
      [] fmt = "trix" -> ".trix"
      [] fmt = "trig" -> ".trig"
      [] fmt = "json-ld" -> ".jsonld"

\* a file name that leaves the number out
Path_unnumbered(folder, prefix, n, ext) ==
    [dir |-> folder, prefix |-> prefix, n |-> 0, ext |-> ext]

\* os.path.join(folder, f"{prefix}{n}" + ext)
Path(folder, prefix, n, ext) ==
    [dir |-> folder, prefix |-> prefix, n |-> n, ext |-> ext]

\* a create_output_path that leaves the level out of the directory name
create_output_path_flat(lvl, output_path) ==
    [base |-> output_path, sub |-> << "level_" >>]

\* the directory S2Writer.create_output_path makes
create_output_path(lvl, output_path) ==
    IF lvl # << >> THEN [base |-> output_path, sub |-> << "level_", lvl[1] >>]
    ELSE output_path

\* writeLog after one more S2Writer.write call with the path
Logged(log, path) ==
    [p \in (DOMAIN log) \cup {path} |->
        IF p = path THEN (IF p \in DOMAIN log THEN log[p] + 1 ELSE 1) ELSE log[p]]

\* files after S2Writer.write(g, path, fmt): the path holds g, whatever it held
S2Writer_write(fs, g, path) ==
    [p \in (DOMAIN fs) \cup {path} |-> IF p = path THEN g ELSE fs[p]]

(***************************************************************************)
(* GeometricFeature.yield_s2_relations                                     *)
(***************************************************************************)
\* the geometry kinds of the input features: one for each branch of the
\* isinstance chain of yield_s2_relations
Kinds == {"Polygon", "LineString", "Point", "MultiPoint"}

\* names geometric_feature.py binds with its shapely import
ShapelyImports == {"LinearRing", "LineString", "MultiPolygon", "Point",
                   "Polygon", "buffer"}

\* a pair that lacks the triple pointing back
RelationPair_oneWay(iri, predicate, inverse, cell_id) ==
    << Triple(iri, predicate, generate_cell_iri(cell_id)) >>

\* the two triples yielded for one cell: predicate one way, inverse back
RelationPair(iri, predicate, inverse, cell_id) ==
    << Triple(iri, predicate, generate_cell_iri(cell_id)),
       Triple(generate_cell_iri(cell_id), inverse, iri) >>

RECURSIVE RelationPairs(_, _, _, _)
RelationPairs(iri, predicate, inverse, cells) ==
    IF cells = << >> THEN << >>
    ELSE RelationPair(iri, predicate, inverse, Head(cells))
         \o RelationPairs(iri, predicate, inverse, Tail(cells))

\* the generator without the loop over the boundary cells
yield_s2_relations_noOverlaps(feature, fill_ids, overlapping, crossing) ==
    IF feature.kind \in {"Polygon", "MultiPolygon"}
    THEN [triples |->
              RelationPairs(feature.iri, "sfContains", "sfWithin", SortedSeq(fill_ids)),
          raised |-> ""]
    ELSE [triples |-> << >>, raised |-> "NameError"]

\* What the generator does for one feature: the triples it yields, in order,
\* and the exception that ends it ("" when it returns).  fill_ids, overlapping
\* and crossing are the coverings its calls obtained.
yield_s2_relations(feature, fill_ids, overlapping, crossing) ==
    IF feature.kind \in {"Polygon", "MultiPolygon"}
    THEN [triples |->
              RelationPairs(feature.iri, "sfContains", "sfWithin", SortedSeq(fill_ids))
              \o RelationPairs(feature.iri, "sfOverlaps", "sfOverlaps",
                               SortedSeq(overlapping)),
          raised |-> ""]
    ELSE IF ~({"LineString", "MultiLineString"} \subseteq ShapelyImports)
    THEN [triples |-> << >>, raised |-> "NameError"]
    ELSE IF feature.kind \in {"LineString", "MultiLineString"}
    THEN [triples |->
              RelationPairs(feature.iri, "sfCrosses", "sfCrosses", SortedSeq(crossing)),
          raised |-> ""]
    ELSE IF feature.kind = "Point"
    THEN [triples |->
              << Triple(feature.iri, "sfWithin", generate_cell_iri(parent(LeafCell))),
                 Triple(generate_cell_iri(parent(LeafCell)), "sfContains", feature.iri) >>,
          raised |-> ""]
    ELSE [triples |-> << >>, raised |-> "ValueError"]

(***************************************************************************)
(* Feature mode: Integrator                                                *)
(***************************************************************************)
FeatureStreams ==
    UNION {[1..n -> Kinds] : n \in 0..MaxFeatures}

\* the GeometricFeature records of a stream of geometry kinds
Features(kinds) ==
    [i \in 1..Len(kinds) |-> [iri |-> FeatureIri(i), kind |-> kinds[i]]]

\* Integrator.__init__: output_folder
output_folder ==
    [base |-> "output", sub |-> << "level_", min_level >>, compressed |-> compressed]

\* the variables of the other entry points while they do not run
CellIdle ==
    /\ level_cfg = 0
    /\ batch_size = 0
    /\ target_parent_level = << >>
    /\ current_id = 0
    /\ id_batch = << >>
    /\ batches = << >>
    /\ tasks = << >>

FillingIdle ==
    /\ exponent = 0
    /\ filling = [num_cells |-> 0, max_cells |-> 0]
    /\ coverings = << >>

DescribeIdle ==
    /\ s2_cell_id = 0
    /\ rdf_graph = {}

RelateIdle ==
    /\ geometry = ""
    /\ fill_cells = {}
    /\ overlap_cells = {}
    /\ crossing_cells = {}
    /\ s2_obj = ""
    /\ oriented = ""
    /\ raised = ""

ConvertIdle ==
    /\ tolerance = 0
    /\ route = ""
    /\ sign = 0
    /\ shape = << >>
    /\ result = << >>

IterIdle ==
    /\ solutions = << >>
    /\ sol_idx = 0
    /\ features = << >>

OverlapIdle ==
    /\ result_set = << >>
    /\ batch_results = << >>
    /\ get_ids_calls = {}

FeatureIdle ==
    /\ compressed = FALSE
    /\ min_level = 0
    /\ max_level = 0
    /\ flush_threshold = 0
    /\ geo_features = << >>
    /\ idx = 0
    /\ coverer = S2RegionCoverer
    /\ boundary_coverer = S2RegionCoverer
    /\ gen = << >>
    /\ graph = {}
    /\ triple_count = 0
    /\ file_counter = 0

InitFeature ==
    /\ mode = "feature"
    /\ pc = "init"
    /\ compressed \in BOOLEAN
    /\ min_level \in 0..kMaxLevel
    /\ max_level \in min_level..kMaxLevel
    /\ flush_threshold \in 0..MaxFlush
    /\ rdf_format \in Formats
    /\ geo_features \in {Features(k) : k \in FeatureStreams}
    /\ idx = 0
    /\ coverer = S2RegionCoverer
    /\ boundary_coverer = S2RegionCoverer
    /\ gen = << >>
    /\ graph = {}
    /\ triple_count = 0
    /\ file_counter = 0
    /\ dirs = {}
    /\ files = << >>
    /\ writeLog = << >>
    /\ emitted = {}
    /\ CellIdle
    /\ FillingIdle
    /\ DescribeIdle
    /\ RelateIdle
    /\ IterIdle
    /\ OverlapIdle
    /\ ConvertIdle

\* Integrator.__init__ up to the pool.map call of spawn_processes
Integrator_init ==
    /\ mode = "feature" /\ pc = "init"
    /\ dirs' = dirs \cup {create_output_path(<< >>, output_folder)}
    /\ pc' = "iterate"
    /\ UNCHANGED << mode, rdf_format, files, writeLog, emitted, featureVars, cellVars, fillingVars, describeVars, relateVars, iterVars, overlapVars, convertVars >>

\* write_all_relations: the coverer built for each feature
FeatureCoverer ==
    LET c == ConstrainedS2RegionCoverer(min_level, max_level)
    IN  IF ~compressed
        THEN IF Truthy(min_level) THEN set_min_level(c, min_level) ELSE c
        ELSE set_min_level(c, 0)

\* GeometricFeature.filling on coverings of fewer than 10^3 cells: one
\* iteration with max_cells = 10^4, then the break
FillingCoverer(cov) == set_max_cells(cov, Pow(10, 4))

\* write_all_relations: the for loop takes the next feature and starts its
\* yield_s2_relations generator
NextFeature ==
    /\ mode = "feature" /\ pc = "iterate"
    /\ idx < Len(geo_features)
    /\ LET feature == geo_features[idx + 1]
           cov == FeatureCoverer
           bcov == ConstrainedS2RegionCoverer(min_level, max_level)
       IN  \E fill_ids \in GetInteriorCovering(FillingCoverer(cov)),
              covering \in GetCovering(bcov) :
             LET r == yield_s2_relations(feature, fill_ids, covering, covering)
             IN  /\ idx' = idx + 1
                 /\ coverer' = IF feature.kind \in {"Polygon", "MultiPolygon"}
                               THEN FillingCoverer(cov) ELSE cov
                 /\ boundary_coverer' = bcov
                 /\ gen' = r.triples
                 /\ pc' = IF r.raised # "" THEN "failed"
                          ELSE IF r.triples = << >> THEN "iterate"
                          ELSE "yield"
    /\ UNCHANGED << mode, rdf_format, dirs, files, writeLog, emitted,
                    compressed, min_level, max_level, flush_threshold,
                    geo_features, graph, triple_count, file_counter, cellVars, fillingVars, describeVars, relateVars, iterVars, overlapVars, convertVars >>

\* the generator yields a triple: graph.add(s2_triple); triple_count += 1
AddTriple ==
    /\ mode = "feature" /\ pc = "yield"
    /\ graph' = graph \cup {Head(gen)}
    /\ emitted' = emitted \cup {Head(gen)}
    /\ triple_count' = triple_count + 1
    /\ gen' = Tail(gen)
    /\ pc' = "check"
    /\ UNCHANGED << mode, rdf_format, dirs, files, writeLog,
                    compressed, min_level, max_level, flush_threshold,
                    geo_features, idx, coverer, boundary_coverer, file_counter,
                    cellVars, fillingVars, describeVars, relateVars, iterVars, overlapVars, convertVars >>

\* the flush test with > in place of >=
CheckFlush_strict ==
    /\ mode = "feature" /\ pc = "check"
    /\ IF triple_count > flush_threshold
       THEN LET destination ==
                    Path(output_folder, "triples_", file_counter,
                         file_extensions(rdf_format))
            IN  /\ files' = S2Writer_write(files, graph, destination)
                /\ writeLog' = Logged(writeLog, destination)
                /\ graph' = {}
                /\ triple_count' = 0
                /\ file_counter' = file_counter + 1
       ELSE UNCHANGED << files, writeLog, graph, triple_count, file_counter >>
    /\ pc' = IF gen = << >> THEN "iterate" ELSE "yield"
    /\ UNCHANGED << mode, rdf_format, dirs, emitted,
                    compressed, min_level, max_level, flush_threshold,
                    geo_features, idx, coverer, boundary_coverer, gen,
                    cellVars, fillingVars, describeVars, relateVars, iterVars, overlapVars, convertVars >>

\* the flush test after each triple
CheckFlush ==
    /\ mode = "feature" /\ pc = "check"
    /\ IF triple_count >= flush_threshold
       THEN LET destination ==
                    Path(output_folder, "triples_", file_counter,
                         file_extensions(rdf_format))
            IN  /\ files' = S2Writer_write(files, graph, destination)
                /\ writeLog' = Logged(writeLog, destination)
                /\ graph' = {}
                /\ triple_count' = 0
                /\ file_counter' = file_counter + 1
       ELSE UNCHANGED << files, writeLog, graph, triple_count, file_counter >>
    /\ pc' = IF gen = << >> THEN "iterate" ELSE "yield"
    /\ UNCHANGED << mode, rdf_format, dirs, emitted,
                    compressed, min_level, max_level, flush_threshold,
                    geo_features, idx, coverer, boundary_coverer, gen, cellVars, fillingVars, describeVars, relateVars, iterVars, overlapVars, convertVars >>

\* write_all_relations returning without the write of what is left
FinalFlush_dropsRemainder ==
    /\ mode = "feature" /\ pc = "iterate"
    /\ idx = Len(geo_features)
    /\ pc' = "done"
    /\ UNCHANGED << mode, rdf_format, dirs, files, writeLog, emitted,
                    featureVars, cellVars, fillingVars, describeVars, relateVars, iterVars, overlapVars, convertVars >>

\* after the loop: write what is left in the graph
FinalFlush ==
    /\ mode = "feature" /\ pc = "iterate"
    /\ idx = Len(geo_features)
    /\ IF triple_count > 0
       THEN LET destination ==
                    Path(output_folder, "triples_", file_counter,
                         file_extensions(rdf_format))
            IN  /\ files' = S2Writer_write(files, graph, destination)
                /\ writeLog' = Logged(writeLog, destination)
       ELSE UNCHANGED << files, writeLog >>
    /\ pc' = "done"
    /\ UNCHANGED << mode, rdf_format, dirs, emitted, featureVars, cellVars, fillingVars, describeVars, relateVars, iterVars, overlapVars, convertVars >>

NextFeatureMode ==
    \/ Integrator_init
    \/ NextFeature
    \/ AddTriple
    \/ CheckFlush
    \/ FinalFlush

SpecFeature == InitFeature /\ [][NextFeatureMode]_vars

(***************************************************************************)
(* S2RDFGenerator: the triples describing one cell                         *)
(***************************************************************************)
Literal(name, lvl, id) == [ns |-> "literal", name |-> name, level |-> lvl, id |-> id]

Resource(ns, name) == [ns |-> ns, name |-> name, level |-> 0, id |-> 0]

\* KWGOnt.KWGR["geometry.polygon.s2.level{level}.{id}"]
geometry_iri(cell_id) ==
    [ns |-> "kwgr", name |-> "geometry.polygon.s2.level",
     level |-> level(cell_id), id |-> cell_id]

create_s2_cell(cell_id) ==
    LET iri == generate_cell_iri(cell_id)
        geo == geometry_iri(cell_id)
        lvl == level(cell_id)
    IN  { Triple(iri, "rdf:type",
                 [ns |-> "kwg-ont", name |-> "S2Cell_Level", level |-> lvl, id |-> 0]),
          Triple(iri, "rdfs:label", Literal("S2 Cell at level with ID", lvl, cell_id)),
          Triple(iri, "kwg-ont:cellID", Literal("xsd:integer", 0, cell_id)),
          Triple(iri, "geo:hasMetricArea", Literal("xsd:float", lvl, cell_id)),
          Triple(iri, "geo:hasGeometry", geo),
          Triple(iri, "geo:hasDefaultGeometry", geo),
          Triple(geo, "rdf:type", Resource("geo", "Geometry")),
          Triple(geo, "rdf:type", Resource("sf", "Polygon")),
          Triple(geo, "rdfs:label", Literal("Geometry of the polygon", lvl, cell_id)),
          Triple(geo, "geo:asWKT", Literal("geo:wktLiteral", lvl, cell_id)) }

\* S2CellId.GetAllNeighbors(level), reduced to the two cells next to the cell
\* on the space-filling curve of its level (the curve is closed)
GetAllNeighbors(cell_id) ==
    LET nxt == IF next(cell_id) = End(level(cell_id))
               THEN Begin(level(cell_id)) ELSE next(cell_id)
        prv == IF cell_id = Begin(level(cell_id))
               THEN End(level(cell_id)) - 2 * lsb(cell_id)
               ELSE cell_id - 2 * lsb(cell_id)
    IN  {nxt, prv}

add_neighbors(cell_id) ==
    UNION { { Triple(generate_cell_iri(cell_id), "sfTouches", generate_cell_iri(n)),
              Triple(generate_cell_iri(n), "sfTouches", generate_cell_iri(cell_id)) }
            : n \in GetAllNeighbors(cell_id) }

\* Python truth value of target_parent_level (None and 0 are false)
TruthyOpt(t) == t # << >> /\ t[1] # 0

RECURSIVE get_parent_at_level(_, _, _)
get_parent_at_level(cell, current_cell_level, target_level) ==
    IF target_level < level(cell)
    THEN get_parent_at_level(
             get_parent_at_level(parent(cell), current_cell_level - 1, target_level),
             current_cell_level - 1, target_level)
    ELSE cell

add_parent_relations(cell_id, target) ==
    IF 0 < level(cell_id) /\ level(cell_id) < 31
    THEN LET p == IF TruthyOpt(target)
                  THEN get_parent_at_level(cell_id, level(cell_id), target[1])
                  ELSE parent(cell_id)
         IN  { Triple(generate_cell_iri(cell_id), "sfWithin", generate_cell_iri(p)),
               Triple(generate_cell_iri(p), "sfContains", generate_cell_iri(cell_id)) }
    ELSE {}

\* S2RDFGenerator(cell_id, target_parent_level, rdf_format).graph
S2RDFGenerator(cell_id, target) ==
    create_s2_cell(cell_id) \cup add_neighbors(cell_id)
    \cup add_parent_relations(cell_id, target)

(***************************************************************************)
(* Cell mode: S2LevelGenerator                                             *)
(***************************************************************************)
\* the levels cell mode is run for
CellModeLevels == {0, 1}

InitCell ==
    /\ mode = "cell"
    /\ pc = "init"
    /\ level_cfg \in CellModeLevels
    /\ batch_size \in 0..MaxBatch
    /\ target_parent_level \in {<< >>} \cup {<< l >> : l \in CellModeLevels}
    /\ rdf_format \in Formats
    /\ current_id = 0
    /\ id_batch = << >>
    /\ batches = << >>
    /\ tasks = << >>
    /\ dirs = {}
    /\ files = << >>
    /\ writeLog = << >>
    /\ emitted = {}
    /\ FeatureIdle
    /\ FillingIdle
    /\ DescribeIdle
    /\ RelateIdle
    /\ IterIdle
    /\ OverlapIdle
    /\ ConvertIdle

\* S2LevelGenerator.__init__ up to spawn_processes, and the first lines of
\* generate_cells_at_level
S2LevelGenerator_init ==
    /\ mode = "cell" /\ pc = "init"
    /\ dirs' = dirs \cup {create_output_path(<< level_cfg >>, "output")}
    /\ current_id' = Begin(level_cfg)
    /\ id_batch' = << >>
    /\ pc' = "generate"
    /\ UNCHANGED << mode, rdf_format, files, writeLog, emitted, featureVars, fillingVars,
                    level_cfg, batch_size, target_parent_level, batches, tasks, describeVars, relateVars, iterVars, overlapVars, convertVars >>

\* the while loop turn with the batch yielded one cell late
generate_cells_at_level_step_late ==
    /\ mode = "cell" /\ pc = "generate"
    /\ current_id # End(level_cfg)
    /\ LET appended == Append(id_batch, current_id)
       IN  IF Len(appended) = batch_size + 1
           THEN /\ batches' = Append(batches, appended)
                /\ tasks' = Append(tasks, appended)
                /\ id_batch' = << >>
           ELSE /\ id_batch' = appended
                /\ UNCHANGED << batches, tasks >>
    /\ current_id' = next(current_id)
    /\ UNCHANGED << mode, pc, rdf_format, dirs, files, writeLog, emitted,
                    featureVars, fillingVars, level_cfg, batch_size,
                    target_parent_level, describeVars, relateVars, iterVars, overlapVars, convertVars >>

\* generate_cells_at_level: one turn of the while loop
generate_cells_at_level_step ==
    /\ mode = "cell" /\ pc = "generate"
    /\ current_id # End(level_cfg)
    /\ LET appended == Append(id_batch, current_id)
       IN  IF Len(appended) = batch_size
           THEN /\ batches' = Append(batches, appended)
                /\ tasks' = Append(tasks, appended)
                /\ id_batch' = << >>
           ELSE /\ id_batch' = appended
                /\ UNCHANGED << batches, tasks >>
    /\ current_id' = next(current_id)
    /\ UNCHANGED << mode, pc, rdf_format, dirs, files, writeLog, emitted,
                    featureVars, fillingVars, level_cfg, batch_size, target_parent_level, describeVars, relateVars, iterVars, overlapVars, convertVars >>

\* generate_cells_at_level ending without the yield of the last, short batch
generate_cells_at_level_end_dropsLast ==
    /\ mode = "cell" /\ pc = "generate"
    /\ current_id = End(level_cfg)
    /\ pc' = "generated"
    /\ UNCHANGED << mode, rdf_format, dirs, files, writeLog, emitted,
                    featureVars, fillingVars, cellVars, describeVars, relateVars, iterVars, overlapVars, convertVars >>

\* generate_cells_at_level: after the loop
generate_cells_at_level_end ==
    /\ mode = "cell" /\ pc = "generate"
    /\ current_id = End(level_cfg)
    /\ IF Len(id_batch) = 0
       THEN UNCHANGED << batches, tasks >>
       ELSE /\ batches' = Append(batches, id_batch)
            /\ tasks' = Append(tasks, id_batch)
    /\ pc' = "generated"
    /\ UNCHANGED << mode, rdf_format, dirs, files, writeLog, emitted,
                    featureVars, fillingVars, level_cfg, batch_size, target_parent_level,
                    current_id, id_batch, describeVars, relateVars, iterVars, overlapVars, convertVars >>

RECURSIVE BatchGraph(_, _)
BatchGraph(cell_ids, target) ==
    IF cell_ids = << >> THEN {}
    ELSE S2RDFGenerator(Head(cell_ids), target) \cup BatchGraph(Tail(cell_ids), target)

\* the sequence without its i-th element
RemoveAt(seq, i) == SubSeq(seq, 1, i - 1) \o SubSeq(seq, i + 1, Len(seq))

\* S2LevelGenerator.generate_and_write(cell_ids) in a pool worker.  The pool
\* hands the waiting batches out oldest first, so the batch a worker finishes
\* next is one of the PoolSize oldest unfinished ones.
generate_and_write ==
    /\ mode = "cell" /\ pc \in {"generate", "generated"}
    /\ \E i \in 1..PoolSize :
         /\ i <= Len(tasks)
         /\ LET cell_ids == tasks[i]
                g == BatchGraph(cell_ids, target_parent_level)
                filepath == Path(create_output_path(<< level_cfg >>, "output"), "",
                                 cell_ids[1], file_extensions(rdf_format))
            IN  /\ files' = S2Writer_write(files, g, filepath)
                /\ writeLog' = Logged(writeLog, filepath)
                /\ tasks' = RemoveAt(tasks, i)
    /\ UNCHANGED << mode, pc, rdf_format, dirs, emitted, featureVars,
                    fillingVars, level_cfg, batch_size, target_parent_level,
                    current_id, id_batch, batches, describeVars, relateVars, iterVars, overlapVars, convertVars >>

\* spawn_processes returns once every batch has been written
spawn_processes_return ==
    /\ mode = "cell" /\ pc = "generated"
    /\ tasks = << >>
    /\ pc' = "done"
    /\ UNCHANGED << mode, rdf_format, dirs, files, writeLog, emitted,
                    featureVars, cellVars, fillingVars, describeVars, relateVars, iterVars, overlapVars, convertVars >>

NextCellMode ==
    \/ S2LevelGenerator_init
    \/ generate_cells_at_level_step
    \/ generate_cells_at_level_end
    \/ generate_and_write
    \/ spawn_processes_return

SpecCell == InitCell /\ [][NextCellMode]_vars

(***************************************************************************)
(* Cell mode started with a batch_size below zero                          *)
(***************************************************************************)
\* s2.py hands --batch_size to S2LevelGenerator as parsed: any int
NegativeBatchSizes == {-2, -1}

InitConfig ==
    /\ mode = "cell"
    /\ pc = "init"
    /\ level_cfg \in CellModeLevels
    /\ batch_size \in NegativeBatchSizes
    /\ target_parent_level \in {<< >>} \cup {<< l >> : l \in CellModeLevels}
    /\ rdf_format \in Formats
    /\ current_id = 0
    /\ id_batch = << >>
    /\ batches = << >>
    /\ tasks = << >>
    /\ dirs = {}
    /\ files = << >>
    /\ writeLog = << >>
    /\ emitted = {}
    /\ FeatureIdle
    /\ FillingIdle
    /\ DescribeIdle
    /\ RelateIdle
    /\ IterIdle
    /\ OverlapIdle
    /\ ConvertIdle

SpecConfig == InitConfig /\ [][NextCellMode]_vars

(***************************************************************************)
(* GeometricFeature.filling: the saturation loop                           *)
(***************************************************************************)
\* for exponent in range(4, 9)
RangeStart == 4

RangeStop == 9

\* len(coverer.GetInteriorCovering(s2_obj)): the library decides it; the
\* lengths tried lie on both sides of the break test of the iteration
NumCellsChoices(e) == {0, Pow(10, e - 1) - 1, Pow(10, e - 1), Pow(10, e)}

InitFilling ==
    /\ mode = "filling"
    /\ pc = "loop"
    /\ \E min \in 0..kMaxLevel, max \in 0..kMaxLevel :
         /\ min <= max
         /\ coverer = ConstrainedS2RegionCoverer(min, max)
    /\ exponent = RangeStart
    /\ filling = [num_cells |-> 0, max_cells |-> 0]
    /\ coverings = << >>
    /\ rdf_format \in Formats
    /\ dirs = {}
    /\ files = << >>
    /\ writeLog = << >>
    /\ emitted = {}
    /\ compressed = FALSE
    /\ min_level = 0
    /\ max_level = 0
    /\ flush_threshold = 0
    /\ geo_features = << >>
    /\ idx = 0
    /\ boundary_coverer = S2RegionCoverer
    /\ gen = << >>
    /\ graph = {}
    /\ triple_count = 0
    /\ file_counter = 0
    /\ CellIdle
    /\ DescribeIdle
    /\ RelateIdle
    /\ IterIdle
    /\ OverlapIdle
    /\ ConvertIdle

\* the loop turn with the break test against 10^exponent
filling_iteration_earlyBreak ==
    /\ mode = "filling" /\ pc = "loop"
    /\ exponent \in RangeStart..(RangeStop - 1)
    /\ LET max_cells == Pow(10, exponent)
       IN  /\ coverer' = set_max_cells(coverer, max_cells)
           /\ \E num_cells \in NumCellsChoices(exponent) :
                /\ filling' = [num_cells |-> num_cells, max_cells |-> max_cells]
                /\ coverings' = Append(coverings, filling')
                /\ IF num_cells < Pow(10, exponent)
                   THEN /\ pc' = "return"
                        /\ exponent' = exponent
                   ELSE /\ exponent' = exponent + 1
                        /\ pc' = IF exponent + 1 = RangeStop THEN "return" ELSE "loop"
    /\ UNCHANGED << mode, rdf_format, dirs, files, writeLog, emitted,
                    compressed, min_level, max_level, flush_threshold,
                    geo_features, idx, boundary_coverer, gen, graph,
                    triple_count, file_counter, cellVars, describeVars, relateVars, iterVars, overlapVars, convertVars >>

\* one turn of the for loop of filling
filling_iteration ==
    /\ mode = "filling" /\ pc = "loop"
    /\ exponent \in RangeStart..(RangeStop - 1)
    /\ LET max_cells == Pow(10, exponent)
       IN  /\ coverer' = set_max_cells(coverer, max_cells)
           /\ \E num_cells \in NumCellsChoices(exponent) :
                /\ filling' = [num_cells |-> num_cells, max_cells |-> max_cells]
                /\ coverings' = Append(coverings, filling')
                /\ IF num_cells < Pow(10, exponent - 1)
                   THEN /\ pc' = "return"
                        /\ exponent' = exponent
                   ELSE /\ exponent' = exponent + 1
                        /\ pc' = IF exponent + 1 = RangeStop THEN "return" ELSE "loop"
    /\ UNCHANGED << mode, rdf_format, dirs, files, writeLog, emitted,
                    compressed, min_level, max_level, flush_threshold,
                    geo_features, idx, boundary_coverer, gen, graph,
                    triple_count, file_counter, cellVars, describeVars, relateVars, iterVars, overlapVars, convertVars >>

\* return filling
filling_return ==
    /\ mode = "filling" /\ pc = "return"
    /\ pc' = "done"
    /\ UNCHANGED << mode, rdf_format, dirs, files, writeLog, emitted,
                    featureVars, cellVars, fillingVars, describeVars, relateVars, iterVars, overlapVars, convertVars >>

NextFillingMode ==
    \/ filling_iteration
    \/ filling_return

SpecFilling == InitFilling /\ [][NextFillingMode]_vars

(***************************************************************************)
(* S2RDFGenerator on its own: one cell described                           *)
(***************************************************************************)
\* every valid cell id of the scaled hierarchy
AllCells ==
    {c \in 1..(NumFaces * Pow(2, kPosBits) - 1) :
        \E l \in 0..kMaxLevel : lsb(c) = lsb_for_level(l)}

InitDescribe ==
    /\ mode = "describe"
    /\ pc = "init"
    /\ s2_cell_id \in AllCells
    /\ target_parent_level \in {<< >>} \cup {<< l >> : l \in 0..kMaxLevel}
    /\ rdf_graph = {}
    /\ rdf_format \in Formats
    /\ dirs = {}
    /\ files = << >>
    /\ writeLog = << >>
    /\ emitted = {}
    /\ level_cfg = 0
    /\ batch_size = 0
    /\ current_id = 0
    /\ id_batch = << >>
    /\ batches = << >>
    /\ tasks = << >>
    /\ FeatureIdle
    /\ FillingIdle
    /\ RelateIdle
    /\ IterIdle
    /\ OverlapIdle
    /\ ConvertIdle

\* S2RDFGenerator.__init__
S2RDFGenerator_init ==
    /\ mode = "describe" /\ pc = "init"
    /\ rdf_graph' = S2RDFGenerator(s2_cell_id, target_parent_level)
    /\ pc' = "done"
    /\ UNCHANGED << mode, rdf_format, dirs, files, writeLog, emitted,
                    featureVars, cellVars, fillingVars, s2_cell_id, relateVars, iterVars, overlapVars, convertVars >>

NextDescribeMode == S2RDFGenerator_init

SpecDescribe == InitDescribe /\ [][NextDescribeMode]_vars

(***************************************************************************)
(* GeometricFeature on its own: one geometry converted and related         *)
(***************************************************************************)
\* the geometry kinds a GeometricFeature is built with
GeometryKinds ==
    Kinds \cup {"MultiPolygon", "MultiLineString", "GeometryCollection"}

\* GeometricFeature.s2_from_coords: the isinstance chain has no else, so a
\* geometry none of the tests accepts falls off the end and None is returned
s2_from_coords(kind) ==
    IF kind = "tuple" THEN [value |-> "S2Point", raised |-> ""]
    ELSE IF kind = "Point" THEN [value |-> "S2Point", raised |-> ""]
    ELSE IF kind = "LinearRing" THEN [value |-> "S2Loop", raised |-> ""]
    ELSE IF kind = "LineString" THEN [value |-> "S2Polyline", raised |-> ""]
    ELSE IF kind \in {"Polygon", "MultiPolygon"}
    THEN [value |-> "S2Polygon", raised |-> ""]
    ELSE [value |-> "None", raised |-> ""]

\* GeometricFeature.orient: again no else
orient(kind) ==
    IF kind = "LinearRing" THEN [value |-> "LinearRing", raised |-> ""]
    ELSE IF kind = "Polygon" THEN [value |-> "Polygon", raised |-> ""]
    ELSE IF kind = "MultiPolygon" THEN [value |-> "MultiPolygon", raised |-> ""]
    ELSE [value |-> "None", raised |-> ""]

InitRelate ==
    /\ mode = "relate"
    /\ pc = "init"
    /\ geometry \in GeometryKinds
    /\ compressed \in BOOLEAN
    /\ min_level \in 0..kMaxLevel
    /\ max_level \in min_level..kMaxLevel
    /\ fill_cells = {}
    /\ overlap_cells = {}
    /\ crossing_cells = {}
    /\ s2_obj = ""
    /\ oriented = ""
    /\ raised = ""
    /\ flush_threshold = 0
    /\ rdf_format \in Formats
    /\ geo_features = << >>
    /\ idx = 0
    /\ coverer = S2RegionCoverer
    /\ boundary_coverer = S2RegionCoverer
    /\ gen = << >>
    /\ graph = {}
    /\ triple_count = 0
    /\ file_counter = 0
    /\ dirs = {}
    /\ files = << >>
    /\ writeLog = << >>
    /\ emitted = {}
    /\ CellIdle
    /\ FillingIdle
    /\ DescribeIdle
    /\ IterIdle
    /\ OverlapIdle
    /\ ConvertIdle

\* the geometry handed to the adapter: s2_from_coords and orient
s2_from_coords_call ==
    /\ mode = "relate" /\ pc = "init"
    /\ s2_obj' = s2_from_coords(geometry).value
    /\ oriented' = orient(geometry).value
    /\ raised' = IF s2_from_coords(geometry).raised # ""
                 THEN s2_from_coords(geometry).raised
                 ELSE orient(geometry).raised
    /\ pc' = "converted"
    /\ UNCHANGED << mode, rdf_format, dirs, files, writeLog, emitted,
                    featureVars, cellVars, fillingVars, describeVars,
                    geometry, fill_cells, overlap_cells, crossing_cells, iterVars, overlapVars, convertVars >>

\* yield_s2_relations(coverer) is called and runs up to its first yield; the
\* library hands back the coverings
yield_s2_relations_call ==
    /\ mode = "relate" /\ pc = "converted"
    /\ LET cov == FeatureCoverer
           bcov == ConstrainedS2RegionCoverer(min_level, max_level)
       IN  \E fill_ids \in GetInteriorCovering(FillingCoverer(cov)),
              overlapping \in GetCovering(bcov),
              crossing \in GetCovering(bcov) :
             LET r == yield_s2_relations([iri |-> FeatureIri(1), kind |-> geometry],
                                         fill_ids, overlapping, crossing)
             IN  /\ fill_cells' = fill_ids
                 /\ overlap_cells' = overlapping
                 /\ crossing_cells' = crossing
                 /\ coverer' = cov
                 /\ boundary_coverer' = bcov
                 /\ gen' = r.triples
                 /\ raised' = r.raised
                 /\ pc' = IF r.raised # "" THEN "failed"
                          ELSE IF r.triples = << >> THEN "done"
                          ELSE "yield"
    /\ UNCHANGED << mode, rdf_format, dirs, files, writeLog, emitted,
                    compressed, min_level, max_level, flush_threshold,
                    geo_features, idx, graph, triple_count, file_counter,
                    cellVars, fillingVars, describeVars,
                    geometry, s2_obj, oriented, iterVars, overlapVars, convertVars >>

\* the generator yields its next triple
yield_s2_relations_next ==
    /\ mode = "relate" /\ pc = "yield"
    /\ emitted' = emitted \cup {Head(gen)}
    /\ gen' = Tail(gen)
    /\ pc' = IF Tail(gen) = << >> THEN "done" ELSE "yield"
    /\ UNCHANGED << mode, rdf_format, dirs, files, writeLog,
                    compressed, min_level, max_level, flush_threshold,
                    geo_features, idx, coverer, boundary_coverer, graph,
                    triple_count, file_counter,
                    cellVars, fillingVars, describeVars, relateVars, iterVars, overlapVars, convertVars >>

NextRelateMode ==
    \/ s2_from_coords_call
    \/ yield_s2_relations_call
    \/ yield_s2_relations_next

SpecRelate == InitRelate /\ [][NextRelateMode]_vars

(***************************************************************************)
(* Overlap mode: S2OverlapGenerator                                        *)
(***************************************************************************)
\* what the wkt of a parsed record is: a polygon, or text shapely cannot read
WktKinds == {"Polygon", "malformed"}

\* the records GeometryParser.parse returns for a stream of wkt kinds
Solutions(wkts) ==
    [i \in 1..Len(wkts) |-> [feature_iri |-> FeatureIri(i), wkt |-> wkts[i]]]

SolutionStreams(kinds) ==
    {Solutions(w) : w \in UNION {[1..n -> kinds] : n \in 0..MaxRecords}}

\* shapely.wkt.loads
loads(wkt) ==
    IF wkt = "malformed" THEN [value |-> "None", raised |-> "GEOSException"]
    ELSE [value |-> wkt, raised |-> ""]

InitOverlap ==
    /\ mode = "overlap"
    /\ pc = "init"
    /\ solutions \in SolutionStreams(WktKinds)
    /\ batch_size \in 0..(MaxFeatures + 1)
    /\ min_level \in 0..kMaxLevel
    /\ max_level \in min_level..kMaxLevel
    /\ rdf_format \in Formats
    /\ sol_idx = 0
    /\ features = << >>
    /\ result_set = << >>
    /\ batch_results = << >>
    /\ get_ids_calls = {}
    /\ tasks = << >>
    /\ raised = ""
    /\ dirs = {}
    /\ files = << >>
    /\ writeLog = << >>
    /\ emitted = {}
    /\ compressed = FALSE
    /\ flush_threshold = 0
    /\ geo_features = << >>
    /\ idx = 0
    /\ coverer = S2RegionCoverer
    /\ boundary_coverer = S2RegionCoverer
    /\ gen = << >>
    /\ graph = {}
    /\ triple_count = 0
    /\ file_counter = 0
    /\ level_cfg = 0
    /\ target_parent_level = << >>
    /\ current_id = 0
    /\ id_batch = << >>
    /\ batches = << >>
    /\ geometry = ""
    /\ fill_cells = {}
    /\ overlap_cells = {}
    /\ crossing_cells = {}
    /\ s2_obj = ""
    /\ oriented = ""
    /\ FillingIdle
    /\ DescribeIdle
    /\ ConvertIdle

\* S2OverlapGenerator.__init__ up to the call of batch_result_sets
S2OverlapGenerator_init ==
    /\ mode = "overlap" /\ pc = "init"
    /\ dirs' = dirs \cup {create_output_path(<< max_level >>, "output")}
    /\ result_set' = << >>
    /\ pc' = "batch"
    /\ UNCHANGED << mode, rdf_format, files, writeLog, emitted, featureVars,
                    cellVars, fillingVars, describeVars, relateVars, iterVars,
                    batch_results, get_ids_calls, convertVars >>

\* the for loop turn that yields only a batch longer than batch_size
batch_result_sets_step_late ==
    /\ mode = "overlap" /\ pc = "batch"
    /\ sol_idx < Len(solutions)
    /\ LET geo_result == solutions[sol_idx + 1]
           appended == Append(result_set,
                              [wkt |-> geo_result.wkt,
                               feature_iri |-> geo_result.feature_iri])
       IN  IF Len(appended) = batch_size + 1
           THEN /\ batch_results' = Append(batch_results, appended)
                /\ result_set' = << >>
           ELSE /\ result_set' = appended
                /\ UNCHANGED batch_results
    /\ sol_idx' = sol_idx + 1
    /\ UNCHANGED << mode, pc, rdf_format, dirs, files, writeLog, emitted,
                    featureVars, cellVars, fillingVars, describeVars,
                    relateVars, solutions, features, get_ids_calls, convertVars >>

\* batch_result_sets: one turn of the for loop over the parser's records
batch_result_sets_step ==
    /\ mode = "overlap" /\ pc = "batch"
    /\ sol_idx < Len(solutions)
    /\ LET geo_result == solutions[sol_idx + 1]
           appended == Append(result_set,
                              [wkt |-> geo_result.wkt,
                               feature_iri |-> geo_result.feature_iri])
       IN  IF Len(appended) = batch_size
           THEN /\ batch_results' = Append(batch_results, appended)
                /\ result_set' = << >>
           ELSE /\ result_set' = appended
                /\ UNCHANGED batch_results
    /\ sol_idx' = sol_idx + 1
    /\ UNCHANGED << mode, pc, rdf_format, dirs, files, writeLog, emitted,
                    featureVars, cellVars, fillingVars, describeVars,
                    relateVars, solutions, features, get_ids_calls, convertVars >>

\* batch_result_sets: after the loop; pool.map has then listed the batches
\* and hands them to the workers
batch_result_sets_end ==
    /\ mode = "overlap" /\ pc = "batch"
    /\ sol_idx = Len(solutions)
    /\ LET listed == IF Len(result_set) = 0 THEN batch_results
                     ELSE Append(batch_results, result_set)
       IN  /\ batch_results' = listed
           /\ tasks' = listed
    /\ pc' = "map"
    /\ UNCHANGED << mode, rdf_format, dirs, files, writeLog, emitted,
                    featureVars, level_cfg, batch_size, target_parent_level,
                    current_id, id_batch, batches, fillingVars, describeVars,
                    relateVars, iterVars, result_set, get_ids_calls, convertVars >>

\* generate_cell_batches(features) with geo_batch as it stands: the batches
\* of geometries it hands to get_ids, in order, when every wkt loads
RECURSIVE generate_cell_batches(_, _, _)
generate_cell_batches(fs, geo_batch, b) ==
    IF fs = << >>
    THEN IF Len(geo_batch) = 0 THEN << >> ELSE << geo_batch >>
    ELSE IF Len(geo_batch) = b
    THEN << geo_batch >> \o generate_cell_batches(Tail(fs), << Head(fs).wkt >>, b)
    ELSE generate_cell_batches(Tail(fs), Append(geo_batch, Head(fs).wkt), b)

\* the number of get_ids calls generate_cell_batches makes before it reaches
\* the first record whose wkt does not load (all of them when every wkt loads)
RECURSIVE CallsBeforeRaise(_, _, _)
CallsBeforeRaise(fs, len, b) ==
    IF fs = << >> THEN (IF len = 0 THEN 0 ELSE 1)
    ELSE IF len = b
    THEN 1 + (IF loads(Head(fs).wkt).raised # "" THEN 0
              ELSE CallsBeforeRaise(Tail(fs), 1, b))
    ELSE IF loads(Head(fs).wkt).raised # "" THEN 0
    ELSE CallsBeforeRaise(Tail(fs), len + 1, b)

\* feature.covering(coverer) in get_ids: the library picks the cells, all at
\* levels between min_level and max_level; abstracted to one cell at either
\* end of the range, the cell next to it at max_level, or both cells at
\* max_level
OverlapCoverings(cov) ==
    LET c == Ancestor(LeafCell, cov.max_level)
    IN  GetCovering(cov) \cup {{next(c)}, {c, next(c)}}

\* get_ids: the coverer it builds
get_ids_coverer ==
    set_min_level(set_max_level(S2RegionCoverer, max_level), min_level)

\* get_ids(current_batch) with the covering the library returns: union_all of
\* no geometry is an empty collection, which s2_from_coords turns into None
get_ids(current_batch, covering) ==
    IF current_batch = << >>
    THEN [value |-> << >>,
          raised |-> IF s2_from_coords("GeometryCollection").value = "None"
                     THEN "TypeError" ELSE ""]
    ELSE [value |-> SortedSeq(covering), raised |-> ""]

\* the loop of write_to_rdf over the cells of one get_ids result
RECURSIVE CellsGraph(_)
CellsGraph(cell_ids) ==
    IF cell_ids = << >> THEN [graph |-> {}, raised |-> ""]
    ELSE IF level(Head(cell_ids)) > 0
    THEN LET rest == CellsGraph(Tail(cell_ids))
         IN  [graph |-> S2RDFGenerator(Head(cell_ids), << parent(Head(cell_ids)) >>)
                        \cup rest.graph,
              raised |-> rest.raised]
    ELSE [graph |-> {}, raised |-> "AttributeError"]

\* S2OverlapGenerator.write_to_rdf(result_batch) in a pool worker, whole: the
\* batches go to get_ids, their cells are described into one graph, and the
\* graph is written to the file named by the last cell id.  An exception
\* anywhere ends the task before the write; pool.map lets the other tasks
\* run and raises when all are over.
write_to_rdf ==
    /\ mode = "overlap" /\ pc = "map"
    /\ \E i \in 1..PoolSize :
         /\ i <= Len(tasks)
         /\ LET result_batch == tasks[i]
                all_calls == generate_cell_batches(result_batch, << >>, batch_size)
                n_calls == CallsBeforeRaise(result_batch, 0, batch_size)
                cov == get_ids_coverer
            IN  \E covs \in [1..n_calls -> OverlapCoverings(cov)] :
                  LET ids == [k \in 1..n_calls |-> get_ids(all_calls[k], covs[k])]
                      cg == [k \in 1..n_calls |-> CellsGraph(ids[k].value)]
                      bad == {k \in 1..n_calls :
                                ids[k].raised # "" \/ cg[k].raised # ""}
                      first_bad == IF bad = {} THEN 0
                                   ELSE CHOOSE k \in bad : \A j \in bad : k <= j
                      made == IF first_bad = 0 THEN n_calls ELSE first_bad
                      exc == IF first_bad # 0
                             THEN (IF ids[first_bad].raised # ""
                                   THEN ids[first_bad].raised
                                   ELSE cg[first_bad].raised)
                             ELSE IF n_calls < Len(all_calls) THEN "GEOSException"
                             ELSE ""
                      g == UNION {cg[k].graph : k \in 1..n_calls}
                      file_prepend == IF n_calls = 0 THEN 0
                                      ELSE ids[n_calls].value[Len(ids[n_calls].value)]
                      destination ==
                          Path(create_output_path(<< max_level >>, "output"),
                               IF n_calls = 0 THEN "empty" ELSE "", file_prepend,
                               file_extensions(rdf_format))
                  IN  /\ get_ids_calls' =
                           get_ids_calls \cup {all_calls[k] : k \in 1..made}
                      /\ IF exc = ""
                         THEN /\ files' = S2Writer_write(files, g, destination)
                              /\ writeLog' = Logged(writeLog, destination)
                              /\ UNCHANGED raised
                         ELSE /\ raised' = IF raised = "" THEN exc ELSE raised
                              /\ UNCHANGED << files, writeLog >>
                      /\ tasks' = RemoveAt(tasks, i)
    /\ UNCHANGED << mode, pc, rdf_format, dirs, emitted, featureVars,
                    level_cfg, batch_size, target_parent_level, current_id,
                    id_batch, batches, fillingVars, describeVars,
                    geometry, fill_cells, overlap_cells, crossing_cells,
                    s2_obj, oriented, iterVars, result_set, batch_results, convertVars >>

\* pool.map returns, or raises what a task raised, once every task is over
pool_map_return ==
    /\ mode = "overlap" /\ pc = "map"
    /\ tasks = << >>
    /\ pc' = IF raised = "" THEN "done" ELSE "failed"
    /\ UNCHANGED << mode, rdf_format, dirs, files, writeLog, emitted,
                    featureVars, cellVars, fillingVars, describeVars,
                    relateVars, iterVars, overlapVars, convertVars >>

NextOverlapMode ==
    \/ S2OverlapGenerator_init
    \/ batch_result_sets_step
    \/ batch_result_sets_end
    \/ write_to_rdf
    \/ pool_map_return

SpecOverlap == InitOverlap /\ [][NextOverlapMode]_vars

(***************************************************************************)
(* GeometricFeatures: the iterator over the parsed features                *)
(***************************************************************************)
\* names geometric_features.py binds: its two imports and pathlib's Path
GeometricFeaturesImports == {"Path", "GeometricFeature", "GeometryParser"}

\* the wkt of the records the iterator is run over
IterWktKinds == {"Polygon", "Point", "malformed"}

\* GeometricFeature(geometry, iri, self.tolerance, self.min_level, self.max_level)
GeometricFeature(geom, iri, tol, min, max) ==
    [geometry |-> geom, iri |-> iri, tolerance |-> tol, min |-> min, max |-> max]

InitIter ==
    /\ mode = "iter"
    /\ pc = "iterate"
    /\ solutions \in SolutionStreams(IterWktKinds)
    /\ min_level \in 0..kMaxLevel
    /\ max_level \in min_level..kMaxLevel
    /\ sol_idx = 0
    /\ features = << >>
    /\ raised = ""
    /\ rdf_format \in Formats
    /\ dirs = {}
    /\ files = << >>
    /\ writeLog = << >>
    /\ emitted = {}
    /\ compressed = FALSE
    /\ flush_threshold = 0
    /\ geo_features = << >>
    /\ idx = 0
    /\ coverer = S2RegionCoverer
    /\ boundary_coverer = S2RegionCoverer
    /\ gen = << >>
    /\ graph = {}
    /\ triple_count = 0
    /\ file_counter = 0
    /\ geometry = ""
    /\ fill_cells = {}
    /\ overlap_cells = {}
    /\ crossing_cells = {}
    /\ s2_obj = ""
    /\ oriented = ""
    /\ CellIdle
    /\ FillingIdle
    /\ DescribeIdle
    /\ OverlapIdle
    /\ ConvertIdle

\* GeometricFeatures.__iter__: one turn of the loop over the parser's
\* records.  The name loads is looked up when the turn runs.
GeometricFeatures_iter ==
    /\ mode = "iter" /\ pc = "iterate"
    /\ sol_idx < Len(solutions)
    /\ LET solution == solutions[sol_idx + 1]
           g == loads(solution.wkt)
       IN  IF "loads" \notin GeometricFeaturesImports
           THEN /\ raised' = "NameError"
                /\ pc' = "failed"
                /\ UNCHANGED << features, sol_idx >>
           ELSE IF g.raised # ""
           THEN /\ raised' = g.raised
                /\ pc' = "failed"
                /\ UNCHANGED << features, sol_idx >>
           ELSE /\ features' = Append(features,
                                      GeometricFeature(g.value, solution.feature_iri,
                                                       "tolerance", min_level, max_level))
                /\ sol_idx' = sol_idx + 1
                /\ UNCHANGED << pc, raised >>
    /\ UNCHANGED << mode, rdf_format, dirs, files, writeLog, emitted,
                    featureVars, cellVars, fillingVars, describeVars,
                    geometry, fill_cells, overlap_cells, crossing_cells,
                    s2_obj, oriented, solutions, overlapVars, convertVars >>

\* the parser has no more records: the iteration is over
GeometricFeatures_iter_end ==
    /\ mode = "iter" /\ pc = "iterate"
    /\ sol_idx = Len(solutions)
    /\ pc' = "done"
    /\ UNCHANGED << mode, rdf_format, dirs, files, writeLog, emitted,
                    featureVars, cellVars, fillingVars, describeVars,
                    relateVars, iterVars, overlapVars, convertVars >>

NextIterMode ==
    \/ GeometricFeatures_iter
    \/ GeometricFeatures_iter_end

SpecIter == InitIter /\ [][NextIterMode]_vars

(***************************************************************************)
(* GeometricFeature: the way of a geometry from shapely to S2              *)
(***************************************************************************)
\* A ring or curve is known by its part in the geometry, the sign of its
\* planar signed area, the largest distance between two adjacent vertices,
\* and whether its vertex order was reversed on the way.
Ring(role, area, gap) ==
    [role |-> role, area |-> area, gap |-> gap, reversed |-> FALSE]

Rings(role) == {Ring(role, a, g) : a \in {-1, 0, 1}, g \in 1..MaxGap}

\* a Polygon: its exterior ring, and one interior ring or none
Polygons ==
    {<< e >> : e \in Rings("exterior")}
    \cup {<< e, h >> : e \in Rings("exterior"), h \in Rings("interior")}

\* a LineString
LineStrings == {<< Ring("line", 0, g) >> : g \in 1..MaxGap}

\* the methods of GeometricFeature that convert a geometry, and orient
Routes == {"filling", "covering", "yield_overlapping_ids", "yield_crossing_ids",
           "orient"}

\* shapely.geometry.polygon.signed_area
signed_area(ring) == ring.area

\* LinearRing.reverse
reverse(ring) == [ring EXCEPT !.area = -@, !.reversed = ~@]

\* an orient that hands every ring back as it came
orient_LinearRing_asIs(ring, sgn) == ring

\* orient(geometry, sign) for a LinearRing: signed_area / sign >= 0 keeps it
orient_LinearRing(ring, sgn) ==
    IF signed_area(ring) * sgn >= 0 THEN ring ELSE reverse(ring)

\* orient(geometry, sign) for a Polygon: the exterior with sign, the
\* interiors with -sign
orient_Polygon(rings, sgn) ==
    [i \in DOMAIN rings |->
        IF i = 1 THEN orient_LinearRing(rings[i], sgn)
        ELSE orient_LinearRing(rings[i], -sgn)]

\* boundaries(geometry): the exterior, then the interiors
boundaries(rings) == rings

\* s2_from_coords for a Polygon: map(self.orient, boundaries(geometry)), each
\* ring being oriented with the default sign of orient, then made an S2Loop
\* of its own coordinates
s2_from_coords_Polygon(rings) ==
    [i \in DOMAIN boundaries(rings) |-> orient_LinearRing(boundaries(rings)[i], 1)]

\* s2_approximation(geometry): s2_from_coords(geometry) and nothing else
s2_approximation(rings) == s2_from_coords_Polygon(rings)

\* boundary.segmentize(tolerance): vertices are added until no two adjacent
\* ones are farther apart than the tolerance
segmentize(ring, tol) ==
    [ring EXCEPT !.gap = IF @ <= tol THEN @ ELSE tol]

\* shapely.buffer(curve, tolerance / 100, 2): the polygons GEOS may return.
\* The outline runs along the curve, its sides as long as the curve's; a
\* closed curve gives a polygon with a hole.  The vertex order is GEOS's.
buffer(curve) ==
    IF curve.role = "line"
    THEN {<< Ring("exterior", a, curve.gap) >> : a \in {-1, 1}}
    ELSE {<< Ring("exterior", a, curve.gap), Ring("interior", b, curve.gap) >>
            : a \in {-1, 1}, b \in {-1, 1}}

InitConvert ==
    /\ mode = "convert"
    /\ pc = "init"
    /\ route \in Routes
    /\ tolerance \in 1..MaxGap
    /\ sign \in IF route = "orient" THEN {-1, 1} ELSE {1}
    /\ shape \in IF route = "yield_crossing_ids" THEN LineStrings ELSE Polygons
    /\ result = << >>
    /\ rdf_format \in Formats
    /\ dirs = {}
    /\ files = << >>
    /\ writeLog = << >>
    /\ emitted = {}
    /\ FeatureIdle
    /\ CellIdle
    /\ FillingIdle
    /\ DescribeIdle
    /\ RelateIdle
    /\ IterIdle
    /\ OverlapIdle

\* GeometricFeature.orient(polygon, sign)
orient_call ==
    /\ mode = "convert" /\ pc = "init"
    /\ route = "orient"
    /\ result' = orient_Polygon(shape, sign)
    /\ pc' = "oriented"
    /\ UNCHANGED << mode, rdf_format, dirs, files, writeLog, emitted, featureVars,
                    cellVars, fillingVars, describeVars, relateVars, iterVars,
                    overlapVars, tolerance, route, sign, shape >>

\* yield_overlapping_ids: boundary.segmentize(self.tolerance) for one of the
\* boundary rings
segmentize_call ==
    /\ mode = "convert" /\ pc = "init"
    /\ route = "yield_overlapping_ids"
    /\ \E i \in DOMAIN boundaries(shape) :
         shape' = << segmentize(boundaries(shape)[i], tolerance) >>
    /\ pc' = "segmented"
    /\ UNCHANGED << mode, rdf_format, dirs, files, writeLog, emitted, featureVars,
                    cellVars, fillingVars, describeVars, relateVars, iterVars,
                    overlapVars, tolerance, route, sign, result >>

\* buffer(segmented_boundary, ...) in yield_overlapping_ids and
\* buffer(line_obj, ...) in yield_crossing_ids
buffer_call ==
    /\ mode = "convert"
    /\ \/ route = "yield_overlapping_ids" /\ pc = "segmented"
       \/ route = "yield_crossing_ids" /\ pc = "init"
    /\ shape' \in buffer(shape[1])
    /\ pc' = "buffered"
    /\ UNCHANGED << mode, rdf_format, dirs, files, writeLog, emitted, featureVars,
                    cellVars, fillingVars, describeVars, relateVars, iterVars,
                    overlapVars, tolerance, route, sign, result >>

\* self.s2_approximation(...) in filling, covering and covering_with_geo
s2_approximation_call ==
    /\ mode = "convert"
    /\ \/ route \in {"filling", "covering"} /\ pc = "init"
       \/ route \in {"yield_overlapping_ids", "yield_crossing_ids"} /\ pc = "buffered"
    /\ result' = s2_approximation(shape)
    /\ pc' = "converted"
    /\ UNCHANGED << mode, rdf_format, dirs, files, writeLog, emitted, featureVars,
                    cellVars, fillingVars, describeVars, relateVars, iterVars,
                    overlapVars, tolerance, route, sign, shape >>

NextConvertMode ==
    \/ orient_call
    \/ segmentize_call
    \/ buffer_call
    \/ s2_approximation_call

SpecConvert == InitConvert /\ [][NextConvertMode]_vars

(***************************************************************************)
(* Specifications joining entry points                                     *)
(***************************************************************************)
\* the two producers of topological relations: yield_s2_relations (feature
\* mode) and S2RDFGenerator (the describer of cell mode)
InitRelations == InitFeature \/ InitDescribe

NextRelations == NextFeatureMode \/ NextDescribeMode

SpecRelations == InitRelations /\ [][NextRelations]_vars

\* the three run modes that write files: integrate.py (feature mode), s2.py
\* (cell mode) and the overlap generator
InitRun == InitFeature \/ InitCell \/ InitOverlap

NextRun == NextFeatureMode \/ NextCellMode \/ NextOverlapMode

SpecRun == InitRun /\ [][NextRun]_vars

\* the whole program: any of the entry points
Init ==
    \/ InitFeature
    \/ InitCell
    \/ InitFilling
    \/ InitDescribe
    \/ InitRelate
    \/ InitOverlap
    \/ InitIter
    \/ InitConvert

Next ==
    \/ NextFeatureMode
    \/ NextCellMode
    \/ NextFillingMode
    \/ NextDescribeMode
    \/ NextRelateMode
    \/ NextOverlapMode
    \/ NextIterMode
    \/ NextConvertMode

Spec == Init /\ [][Next]_vars

(***************************************************************************)
(* Properties                                                              *)
(***************************************************************************)
\* every triple found in some written file
FilesUnion == UNION {files[p] : p \in DOMAIN files}

\* C1: feature mode loses no triple.  Once write_all_relations has returned,
\* the union of the written files is exactly the collection of triples the
\* yield_s2_relations generators yielded, and no path was written twice.
C1_NoTripleLost ==
    (mode = "feature" /\ pc = "done")
        => /\ FilesUnion = emitted
           /\ \A p \in DOMAIN writeLog : writeLog[p] = 1

\* a finished run that flushed at the threshold and then wrote a remainder
C1_Witness ==
    /\ mode = "feature" /\ pc = "done"
    /\ flush_threshold = 3
    /\ file_counter >= 1
    /\ triple_count = 1
    /\ Cardinality(DOMAIN files) = file_counter + 1

\* C2 as stated: for every flush threshold T, T <= 0 included, the buffer
\* never holds more than T triples and no file has more than T.
C2_AtMostThreshold ==
    mode = "feature"
        => /\ triple_count <= flush_threshold
           /\ Cardinality(graph) <= flush_threshold
           /\ \A p \in DOMAIN files : Cardinality(files[p]) <= flush_threshold

\* C2 amended: the buffer and every file hold at most T triples when T >= 1,
\* and at most one triple when T <= 0 (every triple is flushed on its own).
C2_AtMostThresholdOrOne ==
    mode = "feature"
        => /\ triple_count <= Max(flush_threshold, 1)
           /\ Cardinality(graph) <= Max(flush_threshold, 1)
           /\ \A p \in DOMAIN files :
                Cardinality(files[p]) <= Max(flush_threshold, 1)

\* a file flushed with exactly T = 2 triples while the next ones are buffered
C2_Witness ==
    /\ mode = "feature"
    /\ flush_threshold = 2
    /\ \E p \in DOMAIN files : Cardinality(files[p]) = flush_threshold
    /\ triple_count = 1

\* C3: every symmetric triple (X, P, Y) of a written file, P one of
\* sfOverlaps, sfTouches, sfCrosses, has its converse (Y, P, X) in that file.
C3_ConverseInSameFile ==
    \A p \in DOMAIN files :
        \A t \in files[p] :
            t.p \in SymmetricPredicates => Triple(t.o, t.p, t.s) \in files[p]

\* the triples a set of triples needs to be closed under sfContains/sfWithin
InverseClosed(T) ==
    \A t \in T :
        /\ t.p = "sfContains" => Triple(t.o, "sfWithin", t.s) \in T
        /\ t.p = "sfWithin" => Triple(t.o, "sfContains", t.s) \in T

\* C4: directional relations come in inverse pairs.  Whenever the generator
\* of a feature is not between the two yields of one cell, every yielded
\* (A, sfContains, B) has its (B, sfWithin, A) yielded and the other way
\* round; the graph S2RDFGenerator builds for a cell holds both or neither.
C4_InversePairs ==
    /\ (mode = "feature" /\ Len(gen) % 2 = 0) => InverseClosed(emitted)
    /\ (mode = "describe" /\ pc = "done") => InverseClosed(rdf_graph)

\* a finished feature run that yielded an interior-fill relation
C4_Witness ==
    /\ mode = "feature" /\ pc = "done"
    /\ \E t \in emitted : t.p = "sfContains"

\* the ids of all cells of a level: face below NumFaces, lowest set bit at
\* the level's position
CellsAtLevel(l) ==
    {c \in 1..(NumFaces * Pow(2, kPosBits) - 1) : lsb(c) = lsb_for_level(l)}

\* the cells a written file describes (the subjects typed S2Cell_LevelN)
Described(p) ==
    {t.s.id : t \in {u \in files[p] : u.p = "rdf:type" /\ u.o.name = "S2Cell_Level"}}

\* C5: cell mode is batch-complete.  When the run is over every cell of the
\* level is described in exactly one written file, no file describes anything
\* else, no path was written twice, and level 0 has 6 cells.
C5_BatchComplete ==
    (mode = "cell" /\ pc = "done")
        => /\ \A c \in CellsAtLevel(level_cfg) :
                Cardinality({p \in DOMAIN files : c \in Described(p)}) = 1
           /\ \A p \in DOMAIN files : Described(p) \subseteq CellsAtLevel(level_cfg)
           /\ \A p \in DOMAIN writeLog : writeLog[p] = 1
           /\ level_cfg = 0 => Cardinality(UNION {Described(p) : p \in DOMAIN files}) = 6

\* a finished level-1 run whose last batch was a short one
C5_Witness ==
    /\ mode = "cell" /\ pc = "done"
    /\ level_cfg = 1 /\ batch_size = 5
    /\ Cardinality(DOMAIN files) = 5

RECURSIVE Flatten(_)
Flatten(ss) == IF ss = << >> THEN << >> ELSE Head(ss) \o Flatten(Tail(ss))

TripleCells(t) ==
    {x.id : x \in {y \in {t.s, t.o} : y.ns = "kwgr" /\ y.name = "s2.level"}}

\* the lower bound the coverers are said to have
CovererLo == IF compressed THEN 0 ELSE min_level

\* C7: in feature mode the coverers of a feature are bounded by
\* [lo, max_level], lo = 0 when compressed and min_level otherwise, and every
\* cell of an emitted relation has a level in that range.
C7_CovererBounds ==
    (mode = "feature" /\ idx > 0)
        => /\ CovererLo <= coverer.min_level /\ coverer.max_level <= max_level
           /\ CovererLo <= boundary_coverer.min_level
           /\ boundary_coverer.max_level <= max_level
           /\ \A t \in emitted : \A c \in TripleCells(t) :
                CovererLo <= level(c) /\ level(c) <= max_level

\* C8: ConstrainedS2RegionCoverer(min_level, max_level) with
\* 0 <= min_level <= max_level reports the supplied levels.
C8_SuppliedLevelsKept ==
    (mode = "feature" /\ idx > 0)
        => /\ boundary_coverer.min_level = min_level
           /\ boundary_coverer.max_level = max_level

\* C9: filling makes at most 5 coverer calls, the i-th with
\* max_cells = 10^(3+i); every call but the last returned at least
\* 10^(exponent-1) cells, the last returned fewer or was the exponent-8 call,
\* and the covering handed back is the one of the last call.
C9_Saturation ==
    mode = "filling"
        => /\ Len(coverings) <= 5
           /\ \A i \in DOMAIN coverings :
                /\ coverings[i].max_cells = Pow(10, 3 + i)
                /\ i < Len(coverings) => coverings[i].num_cells >= Pow(10, 2 + i)
           /\ pc \in {"return", "done"}
                => /\ Len(coverings) >= 1
                   /\ \/ coverings[Len(coverings)].num_cells < Pow(10, 2 + Len(coverings))
                      \/ Len(coverings) = 5
                   /\ filling = coverings[Len(coverings)]
                   /\ coverer.max_cells = Pow(10, 3 + Len(coverings))

\* no call saturates: five calls, the exponent-8 covering is returned
C9_Witness ==
    /\ mode = "filling" /\ pc = "done"
    /\ Len(coverings) = 5
    /\ filling.max_cells = Pow(10, 8)
    /\ filling.num_cells >= Pow(10, 7)

\* the triples yielded so far that name the i-th feature
TriplesOf(i) == {t \in emitted : t.s = FeatureIri(i) \/ t.o = FeatureIri(i)}

\* C10: once the generator of a Point feature F has ended, exactly the two
\* triples (F, sfWithin, cell) and (cell, sfContains, F) were yielded for it,
\* cell being the parent of the leaf cell of the point.
C10_PointTwoTriples ==
    mode = "feature"
        => \A i \in 1..idx :
             (geo_features[i].kind = "Point" /\ (i < idx \/ gen = << >>))
                => TriplesOf(i) =
                     { Triple(FeatureIri(i), "sfWithin",
                              generate_cell_iri(parent(LeafCell))),
                       Triple(generate_cell_iri(parent(LeafCell)), "sfContains",
                              FeatureIri(i)) }

\* the two triples that relate the feature F to a cell, predicate from F to
\* the cell and inverse back
Pair(F, predicate, inverse, c) ==
    { Triple(F, predicate, generate_cell_iri(c)),
      Triple(generate_cell_iri(c), inverse, F) }

\* the relations said to be emitted for a polygonal feature
PolygonRelations(F) ==
    UNION {Pair(F, "sfContains", "sfWithin", c) : c \in fill_cells}
    \cup UNION {Pair(F, "sfOverlaps", "sfOverlaps", c) : c \in overlap_cells}

TopologicalPredicates ==
    {"sfContains", "sfWithin", "sfOverlaps", "sfTouches", "sfCrosses", "sfEquals"}

\* C11: for a Polygon or MultiPolygon feature F the generator yields only
\* triples with F as subject or object and a topological predicate, all of
\* them among the sfContains/sfWithin pairs of the fill cells and the
\* sfOverlaps pairs of the boundary cells, and once it has returned it has
\* yielded exactly those, without raising.
C11_PolygonRelations ==
    (mode = "relate" /\ geometry \in {"Polygon", "MultiPolygon"})
        => /\ \A t \in emitted :
                /\ t.s = FeatureIri(1) \/ t.o = FeatureIri(1)
                /\ t.p \in TopologicalPredicates
           /\ emitted \subseteq PolygonRelations(FeatureIri(1))
           /\ pc # "failed"
           /\ pc = "done" => emitted = PolygonRelations(FeatureIri(1))

\* a MultiPolygon whose fill cell and boundary cell differ, all four triples
\* yielded
C11_Witness ==
    /\ mode = "relate" /\ pc = "done"
    /\ geometry = "MultiPolygon"
    /\ fill_cells # {} /\ overlap_cells # {} /\ fill_cells # overlap_cells
    /\ Cardinality(emitted) = 4

\* C12: for a LineString or MultiLineString feature F, once the generator has
\* ended it has yielded exactly the two sfCrosses triples of every cell of the
\* covering of the buffered line.
C12_LineRelations ==
    (mode = "relate" /\ geometry \in {"LineString", "MultiLineString"}
        /\ pc \in {"done", "failed"})
        => emitted = UNION {Pair(FeatureIri(1), "sfCrosses", "sfCrosses", c) :
                               c \in crossing_cells}

\* the geometry kinds of the Geometry variant
SupportedKinds ==
    {"Point", "LineString", "MultiLineString", "LinearRing", "Polygon",
     "MultiPolygon"}

\* C13: for a geometry kind outside the supported set the adapter raises
\* instead of returning a value, and yield_s2_relations raises without a
\* triple yielded.
C13_UnsupportedRejected ==
    (mode = "relate" /\ geometry \notin SupportedKinds)
        => /\ pc # "init" => (raised # "" /\ s2_obj = "" /\ oriented = "")
           /\ pc \notin {"init", "converted"}
                => (pc = "failed" /\ raised # "" /\ emitted = {})

\* C14: the IRI of a cell is <base>/lod/resource/s2.level{L}.{ID}, L and ID
\* in decimal; the first cell of level 1 (id 288230376151711744 in 64 bits)
\* gets s2.level1.<its id>; two cells have the same IRI only if they are the
\* same cell.
C14_CellIri ==
    (mode = "describe" /\ pc = "done")
        => LET iri == generate_cell_iri(s2_cell_id)
           IN  /\ IriText(iri) =
                    << KWGR, "s2.level" >> \o str(level(s2_cell_id)) \o << "." >>
                    \o str(s2_cell_id)
               /\ s2_cell_id = Begin(1)
                    => IriText(iri) =
                         << KWGR, "s2.level", "1", "." >> \o str(Pow(4, kMaxLevel - 1))
               /\ \A c \in AllCells :
                    /\ (generate_cell_iri(c) = iri) <=> (c = s2_cell_id)
                    /\ (IriText(generate_cell_iri(c)) = IriText(iri)) <=> (c = s2_cell_id)
               /\ \E t \in rdf_graph : t.s = iri

\* the first cell of level 1 described: its IRI is the subject of its triples
C14_Witness ==
    /\ mode = "describe" /\ pc = "done"
    /\ s2_cell_id = Begin(1)
    /\ \E t \in rdf_graph :
         /\ t.p = "kwg-ont:cellID"
         /\ IriText(t.s) = << KWGR, "s2.level", "1", "." >> \o str(s2_cell_id)

\* the cell-to-parent triples of the graph of the described cell
ParentTriples == {t \in rdf_graph : t.p \in {"sfWithin", "sfContains"}}

\* the two triples that put cell c within p
Within(c, p) ==
    { Triple(generate_cell_iri(c), "sfWithin", generate_cell_iri(p)),
      Triple(generate_cell_iri(p), "sfContains", generate_cell_iri(c)) }

\* C15: a described cell of level L > 0 is put within its ancestor at
\* target_parent_level when one is given (any 0 <= target <= L, 0 included),
\* within its one-level-up parent when none is given; a level-0 cell gets no
\* parent triple.
C15_ParentRule ==
    (mode = "describe" /\ pc = "done")
        => LET c == s2_cell_id
           IN  /\ level(c) = 0 => ParentTriples = {}
               /\ (level(c) > 0 /\ target_parent_level = << >>)
                    => ParentTriples = Within(c, parent(c))
               /\ (level(c) > 0 /\ target_parent_level # << >>
                   /\ target_parent_level[1] <= level(c))
                    => /\ ParentTriples = Within(c, Ancestor(c, target_parent_level[1]))
                       /\ level(Ancestor(c, target_parent_level[1]))
                            = target_parent_level[1]

\* C16: asking for the parent at a level deeper than the cell is an error:
\* the describer does not finish and no parent triple is made for the cell.
C16_DeeperTargetFails ==
    (mode = "describe" /\ pc # "init" /\ level(s2_cell_id) > 0
        /\ target_parent_level # << >>
        /\ target_parent_level[1] > level(s2_cell_id))
        => (pc = "failed" /\ ParentTriples = {})

\* the wkt texts of a sequence of parser records
Wkts(fs) == [i \in 1..Len(fs) |-> fs[i].wkt]

RECURSIVE WellFormed(_)
WellFormed(sols) ==
    IF sols = << >> THEN << >>
    ELSE IF loads(Head(sols).wkt).raised = ""
    THEN << Head(sols) >> \o WellFormed(Tail(sols))
    ELSE WellFormed(Tail(sols))

\* the feature said to be yielded for a parsed record
FeatureOf(sol) ==
    [geometry |-> sol.wkt, iri |-> sol.feature_iri, tolerance |-> "tolerance",
     min |-> min_level, max |-> max_level]

\* C18: once the iteration over a GeometricFeatures whose records all carry
\* readable wkt is over, it has yielded one GeometricFeature per record, in
\* parser order, each with the record's IRI and geometry and the configured
\* tolerance, min_level and max_level.
C18_OneFeaturePerRecord ==
    (mode = "iter" /\ pc \in {"done", "failed"}
        /\ WellFormed(solutions) = solutions)
        => /\ Len(features) = Len(solutions)
           /\ \A i \in DOMAIN solutions : features[i] = FeatureOf(solutions[i])

\* C20: a record whose wkt does not parse is skipped: the iteration still
\* runs to its end and yields the feature of every other record.
C20_ParseErrorConfined ==
    (mode = "iter" /\ pc \in {"done", "failed"})
        => /\ pc = "done"
           /\ features = [i \in DOMAIN WellFormed(solutions) |->
                             FeatureOf(WellFormed(solutions)[i])]

\* C19: a run configured with a negative batch_size is rejected at startup:
\* no output directory is created, no batch is handed to a worker, no cell is
\* generated and no file is written.
C19_InvalidConfigRejected ==
    (mode = "cell" /\ batch_size < 0)
        => /\ dirs = {}
           /\ batches = << >>
           /\ tasks = << >>
           /\ files = << >>
           /\ pc # "done"

\* the modes that write files
RunModes == {"feature", "cell", "overlap"}

\* the directory the driver of the running mode is to make
RunDirectory ==
    CASE mode = "feature" ->
             [base |-> "output", sub |-> << "level_", min_level >>,
              compressed |-> compressed]
      [] mode = "cell" -> [base |-> "output", sub |-> << "level_", level_cfg >>]
      [] mode = "overlap" -> [base |-> "output", sub |-> << "level_", max_level >>]

C23_FlushCounter ==
    mode = "feature"
        => LET N == Cardinality(DOMAIN files)
           IN  /\ DOMAIN files =
                    {Path(output_folder, "triples_", k, file_extensions(rdf_format))
                        : k \in 0..(N - 1)}
               /\ DOMAIN writeLog = DOMAIN files
               /\ \A p \in DOMAIN writeLog : writeLog[p] = 1
               /\ file_counter <= N /\ N <= file_counter + 1
               /\ pc # "done" => N = file_counter
               /\ emitted = {} => files = << >>

\* a finished run of two threshold flushes and a remainder: three files
C23_Witness ==
    /\ mode = "feature" /\ pc = "done"
    /\ file_counter = 2
    /\ DOMAIN files =
         {Path(output_folder, "triples_", k, file_extensions(rdf_format)) : k \in 0..2}

\* the smallest id of a non-empty set of cells: the first cell of a batch,
\* whose ids come in increasing order
FirstCell(cells) == CHOOSE c \in cells : \A d \in cells : c <= d

\* C24: in cell mode and in overlap mode every written file lies under
\* level_{L} (level_{max_level} in overlap mode), is named by the id of the
\* first cell described in it followed by the extension of the configured
\* format, and was written by exactly one write call.
C24_BatchFile ==
    mode \in {"cell", "overlap"}
        => \A p \in DOMAIN files :
             /\ p.dir = [base |-> "output",
                         sub |-> << "level_",
                                    IF mode = "cell" THEN level_cfg ELSE max_level >>]
             /\ Described(p) # {}
             /\ p.prefix = ""
             /\ p.n = FirstCell(Described(p))
             /\ p.ext = file_extensions(rdf_format)
             /\ writeLog[p] = 1

\* C25: no two worker tasks write the same path: in every run mode each
\* written path was the target of exactly one write call.
C25_NoSharedFile ==
    mode \in RunModes
        => /\ DOMAIN writeLog = DOMAIN files
           /\ \A p \in DOMAIN writeLog : writeLog[p] <= 1

\* the triples of the written files and of the describer's graph that relate
\* two cells by the predicate
CellToCell(predicate) ==
    {t \in FilesUnion \cup rdf_graph :
        /\ t.p = predicate
        /\ t.s.ns = "kwgr" /\ t.s.name = "s2.level"
        /\ t.o.ns = "kwgr" /\ t.o.name = "s2.level"}

\* C28: every cell-to-cell triple (c, sfWithin, p) and (p, sfContains, c)
\* relates a cell to a strict ancestor, level(p) < level(c), so no cell is
\* within or contains itself; and describing a level-0 cell raises nothing.
C28_StrictAncestor ==
    /\ \A t \in CellToCell("sfWithin") :
         /\ t.o.level < t.s.level
         /\ t.o.id = Ancestor(t.s.id, t.o.level)
    /\ \A t \in CellToCell("sfContains") :
         /\ t.s.level < t.o.level
         /\ t.s.id = Ancestor(t.o.id, t.s.level)
    /\ raised # "AttributeError"

\* C21: once a worker has failed, every file written before stays on disk
\* with the content it had (no step removes it or writes something else to
\* its path), and a run in which a worker failed does not end as a success.
C21_CompletedFilesKept ==
    [][(raised # "" \/ pc = "failed")
          => /\ \A p \in DOMAIN files :
                  p \in DOMAIN files' /\ files'[p] = files[p]
             /\ pc' # "done"]_vars

\* C26: whatever is converted to an S2 object was segmentized with the
\* feature's tolerance first: on every conversion path the rings handed to S2
\* have adjacent vertices at most tolerance apart.
C26_SegmentizedFirst ==
    (mode = "convert" /\ pc = "converted")
        => \A i \in DOMAIN result : result[i].gap <= tolerance

\* the signed area the ring had when it came in
OriginalArea(r) == IF r.reversed THEN -r.area ELSE r.area

\* the ring is what normalizing with the sign gives: kept if its signed area
\* divided by the sign is non-negative, reversed otherwise
NormalizedWith(r, sgn) == r.reversed <=> (OriginalArea(r) * sgn < 0)

\* C27 as stated: in orient and in the conversion to S2 loops alike, the
\* exterior ring is normalized with sign +1 (the sign asked for) and every
\* interior ring with the opposite sign.
C27_HolesOpposite ==
    (mode = "convert" /\ pc \in {"oriented", "converted"})
        => \A i \in DOMAIN result :
             NormalizedWith(result[i],
                            IF result[i].role = "interior" THEN -sign ELSE sign)

\* C27 amended: orient applied to a Polygon normalizes the exterior with the
\* sign and the interiors with the opposite sign; the conversion to S2 loops
\* applies orient to each boundary ring on its own with the default sign, so
\* every ring handed to S2, exterior or hole, is normalized with sign +1.
C27_OrientationNormalized ==
    /\ (mode = "convert" /\ pc = "oriented")
         => \A i \in DOMAIN result :
              NormalizedWith(result[i],
                             IF result[i].role = "interior" THEN -sign ELSE sign)
    /\ (mode = "convert" /\ pc = "converted")
         => \A i \in DOMAIN result :
              /\ NormalizedWith(result[i], 1)
              /\ result[i].area >= 0

\* a polygon whose hole came clockwise was converted: the hole was reversed
C27_Witness ==
    /\ mode = "convert" /\ pc = "converted" /\ route = "filling"
    /\ Len(result) = 2
    /\ result[2].role = "interior"
    /\ OriginalArea(result[2]) = -1
    /\ result[2].reversed

====
